---- MODULE Spec2Model ----
(***************************************************************************)
(* Session-state partitioning of widget_base.py (WidgetBase, BlendState)   *)
(* as driven by streamlit_app.py: key-prefix derivation by walking the     *)
(* call stack, the registry of used prefixes, the scoped state accessors   *)
(* and the pass-start rewrite of the persisted session-state entries.      *)
(* Strings are TLA+ strings, built with \o exactly as the f-strings of the *)
(* source build them.                                                      *)
(***************************************************************************)
EXTENDS Integers, Sequences, FiniteSets, TLC

VARIABLES
    used_key_prefixes,  \* module-level set of prefixes used in this pass
    session_state,      \* st.session_state: key -> value
    widgets,            \* the widget instances constructed in this pass, in order
    stack,              \* ids of the widgets whose methods are active, outermost first
    phase,              \* "run": the script is executing; "idle": between passes
    touched,            \* keys written or rendered since the last pass ended
    seeded,             \* history: keys _apply_session_state_defaults registered
    lastSet,            \* history: key -> last value _set_session_state wrote after seeding
    held,               \* history: keys in the persistence set ever since their lastSet was written
    oldSets,            \* history: the keys of held whose lastSet was written before this pass
    declined,           \* history: the keys of oldSets that kept their value against another
                        \*          default in this pass
    prevLog,            \* history: the widgets of the pass being repeated
    replay              \* history: this pass repeats the constructions of prevLog

vars == <<used_key_prefixes, session_state, widgets, stack, phase, touched,
          seeded, lastSet, held, oldSets, declined, prevLog, replay>>

(***************************************************************************)
(* Bounds of the model.                                                    *)
(***************************************************************************)
MaxWidgets == 3        \* widget constructions per pass (prefix derivation)
MaxDepth == 2          \* nested widget methods active at once
MaxStateWidgets == 2   \* widget constructions per pass (state lifecycle)

(***************************************************************************)
(* Inputs.                                                                 *)
(***************************************************************************)
NoLabel == "None"                    \* named_instance = None
Labels == {NoLabel, "x", "y"}
SharedTypes == {"S"}                 \* concrete subclasses of BlendState
OrdinaryTypes == {"A", "B"}          \* concrete subclasses of WidgetBase only
Types == OrdinaryTypes \cup SharedTypes
StateTypes == {"A"}
Fields == {"f"}
None == "None"                       \* the value None
Values == {None, "a"}

PERSIST_STATE_KEY == "widget_base_PERSIST"

(***************************************************************************)
(* dict helpers                                                            *)
(***************************************************************************)
EmptyDict == [k \in {} |-> None]

\* variant of SetItem: a present key keeps its value (setdefault)
SetItemDefault(s, k, v) == [x \in DOMAIN s \cup {k} |-> IF x \in DOMAIN s THEN s[x] ELSE v]

\* st.session_state[k] = v
SetItem(s, k, v) == [x \in DOMAIN s \cup {k} |-> IF x = k THEN v ELSE s[x]]

\* variant of Update: the entries are replaced by d
UpdateReplacing(s, d) == d

\* st.session_state.update(d): no key is removed
Update(s, d) == [x \in DOMAIN s \cup DOMAIN d |-> IF x \in DOMAIN d THEN d[x] ELSE s[x]]

(***************************************************************************)
(* WidgetBase.__init__: the stack walk                                     *)
(***************************************************************************)
\* named_part of one processed frame
NamedPart(named_instance, named_instance_used) ==
    IF named_instance = NoLabel \/ named_instance_used
    THEN ""
    ELSE "[" \o named_instance \o "]"

\* f"{frame_class.__name__}{named_part}[{sibling_index}].{self._key_prefix}"
Candidate(cls, named_part, sibling_index, key_prefix) ==
    cls \o named_part \o "[" \o ToString(sibling_index) \o "]." \o key_prefix

\* variant of SiblingIndex: the while loop is left out
SiblingIndexZero(cls, named_part, key_prefix, used) == 0

\* the while loop: the smallest index whose candidate is unused
SiblingIndex(cls, named_part, key_prefix, used) ==
    CHOOSE i \in 0..Cardinality(used) :
        /\ Candidate(cls, named_part, i, key_prefix) \notin used
        /\ \A j \in 0..(i - 1) : Candidate(cls, named_part, j, key_prefix) \in used

\* The frames of inspect.stack() that the walk processes for a new widget of
\* class cls, innermost first, as the class of each frame's self.  Frame 0 is
\* WidgetBase.__init__ itself (self is the new widget).  The subclass
\* constructor that calls WidgetBase.__init__(self, ...) is skipped (its line
\* contains "WidgetBase"), and so is BlendState.__init__; a BlendState
\* subclass constructor that calls BlendState.__init__(self) is processed.
\* Then come the active widget methods that enclose the construction.
OwnFrames(cls, named_instance) ==
    IF cls \in SharedTypes /\ named_instance = NoLabel THEN <<cls, cls>> ELSE <<cls>>

EnclosingFrames(log, stk) ==
    [k \in 1..Len(stk) |-> log[stk[Len(stk) + 1 - k]].cls]

\* the body of the for loop over the processed frames
RECURSIVE Walk(_, _, _, _, _)
Walk(frames, named_instance, key_prefix, used, named_instance_used) ==
    IF frames = <<>>
    THEN [key_prefix |-> key_prefix, used |-> used]
    ELSE LET frame_class == Head(frames)
             named_part == NamedPart(named_instance, named_instance_used)
         IN  IF frame_class \in SharedTypes
             THEN Walk(Tail(frames), named_instance,
                       frame_class \o named_part, used, TRUE)
             ELSE LET i == SiblingIndex(frame_class, named_part, key_prefix, used)
                      p == Candidate(frame_class, named_part, i, key_prefix)
                  IN  Walk(Tail(frames), named_instance, p, used \cup {p}, TRUE)

\* sibling_index of frame 0 (the new widget's own segment); -1 for a BlendState
OwnIndex(cls, named_instance, used) ==
    IF cls \in SharedTypes THEN -1
    ELSE SiblingIndex(cls, NamedPart(named_instance, FALSE), "", used)

Parent(stk) == IF stk = <<>> THEN 0 ELSE stk[Len(stk)]

\* A widget of class cls is constructed (from the top level of the script or
\* from inside the active method of the widget on top of the stack); its
\* constructor calls WidgetBase.__init__ first and stays active.
Construct(cls, named_instance) ==
    /\ phase = "run"
    /\ LET r == Walk(OwnFrames(cls, named_instance) \o EnclosingFrames(widgets, stack),
                     named_instance, "", used_key_prefixes, FALSE)
           w == [cls |-> cls, named |-> named_instance, parent |-> Parent(stack),
                 idx |-> OwnIndex(cls, named_instance, used_key_prefixes),
                 key_prefix |-> r.key_prefix]
       IN  /\ used_key_prefixes' = r.used
           /\ widgets' = Append(widgets, w)
           /\ stack' = Append(stack, Len(widgets) + 1)
    /\ UNCHANGED <<session_state, phase, touched, seeded, lastSet, held, oldSets,
                   declined, prevLog, replay>>

\* the innermost active widget method returns
Return ==
    /\ phase = "run"
    /\ stack # <<>>
    /\ stack' = SubSeq(stack, 1, Len(stack) - 1)
    /\ UNCHANGED <<used_key_prefixes, session_state, widgets, phase, touched,
                   seeded, lastSet, held, oldSets, declined, prevLog, replay>>

(***************************************************************************)
(* Scoped accessors                                                        *)
(***************************************************************************)
\* _full_key
FullKey(w, key_name) == w.key_prefix \o key_name

\* _get_session_state
GetState(s, w, key_name) ==
    IF FullKey(w, key_name) \notin DOMAIN s THEN None ELSE s[FullKey(w, key_name)]

\* the keys in the persistence set, none when it has no entry
InSet(s) == IF PERSIST_STATE_KEY \in DOMAIN s THEN s[PERSIST_STATE_KEY] ELSE {}

\* _set_session_state, by widget instance i of this pass (its constructor, or
\* a handler that runs before the next pass starts)
SetState(i, key_name, value) ==
    /\ i \in 1..Len(widgets)
    /\ LET k == FullKey(widgets[i], key_name)
       IN  /\ session_state' = SetItem(session_state, k, value)
           /\ touched' = touched \cup {k}
           /\ lastSet' = IF k \in seeded THEN SetItem(lastSet, k, value) ELSE lastSet
           /\ held' = IF k \in seeded /\ k \in InSet(session_state)
                      THEN held \cup {k}
                      ELSE held \ {k}
           /\ oldSets' = oldSets \ {k}
           /\ declined' = declined \ {k}
    /\ UNCHANGED <<used_key_prefixes, widgets, stack, phase, seeded, prevLog, replay>>

\* variant of NeedsDefault: the test is left out
NeedsDefaultAlways(s, full_key) == TRUE

\* variant of NeedsDefault: a present key whose value is None is given the default
NeedsDefaultNonNull(s, full_key) == full_key \notin DOMAIN s \/ s[full_key] = None

\* the test of line 103: if full_key not in st.session_state
NeedsDefault(s, full_key) == full_key \notin DOMAIN s

\* variant of Registered: line 107 is left out
RegisteredNot(s, full_key) ==
    IF PERSIST_STATE_KEY \notin DOMAIN s THEN {} ELSE s[PERSIST_STATE_KEY]

\* the persistence set after lines 105-107
Registered(s, full_key) ==
    IF PERSIST_STATE_KEY \notin DOMAIN s THEN {full_key}
    ELSE s[PERSIST_STATE_KEY] \cup {full_key}

\* variant of Defaulted: a key found present is registered in a new persistence set
DefaultedResetting(s, full_key, value) ==
    IF full_key \notin DOMAIN s
    THEN SetItem(SetItem(s, PERSIST_STATE_KEY, Registered(s, full_key)), full_key, value)
    ELSE SetItem(s, PERSIST_STATE_KEY, {full_key})

\* the body of the loop of lines 101-108 for one entry of defaults: the
\* session state after it
Defaulted(s, full_key, value) ==
    IF NeedsDefault(s, full_key)
    THEN SetItem(SetItem(s, PERSIST_STATE_KEY, Registered(s, full_key)), full_key, value)
    ELSE s

\* _apply_session_state_defaults({key_name: value}) by widget instance i
ApplyDefaults(i, key_name, value) ==
    /\ phase = "run"
    /\ i \in 1..Len(widgets)
    /\ LET full_key == FullKey(widgets[i], key_name)
       IN  /\ session_state' = Defaulted(session_state, full_key, value)
           /\ touched' =
                 IF NeedsDefault(session_state, full_key)
                 THEN touched \cup {full_key} \cup
                         (IF PERSIST_STATE_KEY \in DOMAIN session_state
                          THEN {} ELSE {PERSIST_STATE_KEY})
                 ELSE touched
           /\ seeded' = IF NeedsDefault(session_state, full_key)
                        THEN seeded \cup {full_key}
                        ELSE seeded
           /\ declined' =
                 IF full_key \in oldSets /\ session_state'[full_key] # value
                 THEN declined \cup {full_key}
                 ELSE declined
    /\ UNCHANGED <<used_key_prefixes, widgets, stack, phase, lastSet, held, oldSets,
                   prevLog, replay>>

(***************************************************************************)
(* WidgetBase.prepare                                                      *)
(***************************************************************************)
\* variant of Cleared: the registry is not emptied
ClearedKept(used) == used

\* used_key_prefixes.clear()
Cleared(used) == {}

\* variant of SweepItems: no entry is selected
SweepItemsNone(s) == EmptyDict

\* variant of SweepItems: the selected entries are rewritten with None
SweepItemsBlank(s) ==
    [k \in {x \in DOMAIN s : x \in s[PERSIST_STATE_KEY]} |-> None]

\* the dict comprehension of lines 43-47
SweepItems(s) ==
    [k \in {x \in DOMAIN s : x \in s[PERSIST_STATE_KEY]} |-> s[k]]

\* lines 42-47
Sweep(s) ==
    IF PERSIST_STATE_KEY \in DOMAIN s THEN Update(s, SweepItems(s)) ELSE s

\* the keys that update() writes
Rewritten(s) ==
    IF PERSIST_STATE_KEY \in DOMAIN s THEN DOMAIN SweepItems(s) ELSE {}

\* The script starts a pass (streamlit_app.py:14).  repeat is the choice to
\* perform, in this pass, the constructions of the pass that just ended.
Prepare(repeat) ==
    /\ phase = "idle"
    /\ phase' = "run"
    /\ used_key_prefixes' = Cleared(used_key_prefixes)
    /\ session_state' = Sweep(session_state)
    /\ touched' = touched \cup Rewritten(session_state)
    /\ widgets' = <<>>
    /\ stack' = <<>>
    /\ replay' = repeat
    /\ prevLog' = IF repeat THEN widgets ELSE <<>>
    /\ oldSets' = held
    /\ declined' = {}
    /\ UNCHANGED <<seeded, lastSet, held>>

(***************************************************************************)
(* The host                                                                *)
(***************************************************************************)
\* a UI element is rendered with key=self._full_key(key_name): the key is
\* declared in this pass, with the element's initial value when it is new
Render(i, key_name) ==
    /\ phase = "run"
    /\ i \in 1..Len(widgets)
    /\ LET k == FullKey(widgets[i], key_name)
       IN  /\ session_state' =
                 IF k \in DOMAIN session_state THEN session_state
                 ELSE SetItem(session_state, k, None)
           /\ touched' = touched \cup {k}
    /\ UNCHANGED <<used_key_prefixes, widgets, stack, phase, seeded, lastSet,
                   held, oldSets, declined, prevLog, replay>>

\* The script ends (it runs to its end or st.stop() is called) and the host
\* deletes the entries in gone.
EndPassWith(gone) ==
    /\ phase = "run"
    /\ stack = <<>>
    /\ phase' = "idle"
    /\ session_state' = [k \in DOMAIN session_state \ gone |-> session_state[k]]
    /\ touched' = {}
    /\ held' = held \cap InSet(session_state')
    /\ oldSets' = oldSets \cap held'
    /\ declined' = declined \cap held'
    /\ UNCHANGED <<used_key_prefixes, widgets, stack, seeded, lastSet, prevLog, replay>>

\* The host deletes the entry of every field that was neither rendered nor
\* written in this pass; the entry of the persistence set is not the entry
\* of a field.
Expired(s, kept) == {k \in DOMAIN s : k # PERSIST_STATE_KEY /\ k \notin kept}

EndPass == EndPassWith(Expired(session_state, touched))

\* The host deletes every entry that was neither rendered nor written in
\* this pass, the entry of the persistence set included.
ExpiredAny(s, kept) == {k \in DOMAIN s : k \notin kept}

EndPassAny == EndPassWith(ExpiredAny(session_state, touched))

(***************************************************************************)
(* Specifications                                                          *)
(***************************************************************************)
Init ==
    /\ used_key_prefixes = {}
    /\ session_state = EmptyDict
    /\ widgets = <<>>
    /\ stack = <<>>
    /\ phase = "idle"
    /\ touched = {}
    /\ seeded = {}
    /\ lastSet = EmptyDict
    /\ held = {}
    /\ oldSets = {}
    /\ declined = {}
    /\ prevLog = <<>>
    /\ replay = FALSE

\* the construction descriptor of a logged widget
Desc(w) == <<w.cls, w.named, w.parent>>

\* in a repeating pass, the next construction is the one prevLog made there
Repeats(cls, named_instance) ==
    replay =>
        /\ Len(widgets) < Len(prevLog)
        /\ Desc(prevLog[Len(widgets) + 1]) = <<cls, named_instance, Parent(stack)>>

\* Prefix derivation: passes of nested constructions.
NextKeys ==
    \/ \E repeat \in BOOLEAN : Prepare(repeat)
    \/ \E cls \in Types, named_instance \in Labels :
          /\ Len(widgets) < MaxWidgets
          /\ Len(stack) < MaxDepth
          /\ Repeats(cls, named_instance)
          /\ Construct(cls, named_instance)
    \/ Return
    \/ EndPass

SpecKeys == Init /\ [][NextKeys]_vars

\* State lifecycle: passes of top-level constructions, accessor calls,
\* rendering and the host's expiry of either kind.
Next ==
    \/ Prepare(FALSE)
    \/ \E cls \in StateTypes :
          /\ Len(widgets) < MaxStateWidgets
          /\ stack = <<>>
          /\ Construct(cls, NoLabel)
    \/ Return
    \/ \E i \in 1..Len(widgets), f \in Fields, v \in Values : ApplyDefaults(i, f, v)
    \/ \E i \in 1..Len(widgets), f \in Fields, v \in Values : SetState(i, f, v)
    \/ \E i \in 1..Len(widgets), f \in Fields : Render(i, f)
    \/ EndPass
    \/ EndPassAny

Spec == Init /\ [][Next]_vars

(***************************************************************************)
(* streamlit_app.py: the script body and TableChooser                      *)
(***************************************************************************)
\* the names that session.sql(...).collect() returns
Databases == {"SCRATCH"}
Schemas == {"PUBLIC"}
Tables == {"CUSTOMERS"}

\* options=[None] + names, of the selectbox with key key_name
Options(key_name) ==
    {None} \cup (IF key_name = "database" THEN Databases
                 ELSE IF key_name = "schema" THEN Schemas
                 ELSE Tables)

\* the for loop of _apply_session_state_defaults over a mapping, given as
\* the sequence of its <<key_name, value>> items
RECURSIVE ApplyAll(_, _, _)
ApplyAll(s, key_prefix, items) ==
    IF items = <<>> THEN s
    ELSE ApplyAll(Defaulted(s, key_prefix \o Head(items)[1], Head(items)[2]),
                  key_prefix, Tail(items))

\* the mappings of lines 31-37 and 42-48, in the order of the calls
ChooserDefaults(initial_database, initial_schema, initial_table) ==
    << <<"database", initial_database>>,
       <<"schema", initial_schema>>,
       <<"table", initial_table>>,
       <<"show_selection", initial_database = None \/ initial_schema = None
                               \/ initial_table = None>> >>

\* line 61
FormatTableName(selected_database, selected_schema, selected_table) ==
    "\"" \o selected_database \o "\".\"" \o selected_schema \o "\".\""
         \o selected_table \o "\""

\* full_table_name when the constructor returns (lines 41, 51-61)
FullTableName(selected_database, selected_schema, selected_table) ==
    IF selected_database = None THEN None
    ELSE IF selected_schema = None THEN None
    ELSE FormatTableName(selected_database, selected_schema, selected_table)

\* TableChooser(initial_database, initial_schema, initial_table) at the top
\* level of the script: the whole constructor
NewTableChooser(initial_database, initial_schema, initial_table) ==
    /\ phase = "run"
    /\ stack = <<>>
    /\ LET r == Walk(OwnFrames("TableChooser", NoLabel), NoLabel, "",
                     used_key_prefixes, FALSE)
           items == ChooserDefaults(initial_database, initial_schema, initial_table)
           s == ApplyAll(session_state, r.key_prefix, items)
           created == DOMAIN s \ DOMAIN session_state
           me == [key_prefix |-> r.key_prefix]
           w == [cls |-> "TableChooser", named |-> NoLabel, parent |-> 0,
                 idx |-> OwnIndex("TableChooser", NoLabel, used_key_prefixes),
                 key_prefix |-> r.key_prefix,
                 selected_database |-> GetState(s, me, "database"),
                 selected_schema |-> GetState(s, me, "schema"),
                 selected_table |-> GetState(s, me, "table"),
                 show_selection |-> GetState(s, me, "show_selection"),
                 full_table_name |->
                     FullTableName(GetState(s, me, "database"),
                                   GetState(s, me, "schema"),
                                   GetState(s, me, "table")),
                 rendered |-> FALSE, stopped |-> FALSE, shown |-> {}]
       IN  /\ used_key_prefixes' = r.used
           /\ widgets' = Append(widgets, w)
           /\ session_state' = s
           /\ touched' = touched \cup created
           /\ seeded' = seeded \cup (created \ {PERSIST_STATE_KEY})
           /\ declined' = declined \cup
                 {r.key_prefix \o items[n][1] : n \in
                     {m \in 1..Len(items) :
                         /\ r.key_prefix \o items[m][1] \in oldSets
                         /\ s[r.key_prefix \o items[m][1]] # items[m][2]}}
    /\ UNCHANGED <<stack, phase, lastSet, held, oldSets, prevLog, replay>>

\* the keys of the elements that render() creates (lines 70-108)
Shown(w) ==
    IF w.show_selection = TRUE
    THEN {"database"}
         \cup (IF w.selected_database # None THEN {"schema"} ELSE {})
         \cup (IF w.selected_database # None /\ w.selected_schema # None
               THEN {"table"} ELSE {})
    ELSE {"change_selection"}

\* render() ends in st.stop() (lines 98-100)
Stops(w) ==
    /\ w.show_selection = TRUE
    /\ w.selected_database # None
    /\ w.selected_schema # None
    /\ w.selected_table = None

\* table_n_chooser.render() (lines 115, 124): the whole method
RenderChooser(i) ==
    /\ phase = "run"
    /\ i = Len(widgets)
    /\ i >= 1
    /\ ~widgets[i].rendered
    /\ LET w == widgets[i]
           keys == {FullKey(w, key_name) : key_name \in Shown(w)}
       IN  /\ widgets' = [widgets EXCEPT ![i].rendered = TRUE,
                                        ![i].stopped = Stops(w),
                                        ![i].shown = Shown(w)]
           /\ session_state' =
                 [k \in DOMAIN session_state \cup keys |->
                     IF k \in DOMAIN session_state THEN session_state[k] ELSE FALSE]
           /\ touched' = touched \cup keys
    /\ UNCHANGED <<used_key_prefixes, stack, phase, seeded, lastSet, held, oldSets,
                   declined, prevLog, replay>>

\* The script is at a point where it ends: st.stop() of line 23, st.stop()
\* inside render(), a chooser without a full_table_name (lines 116, 125), or
\* the end of the file.
ScriptAtEnd ==
    \/ widgets = <<>>
    \/ /\ widgets # <<>>
       /\ widgets[Len(widgets)].rendered
       /\ \/ widgets[Len(widgets)].stopped
          \/ widgets[Len(widgets)].full_table_name = None
          \/ Len(widgets) = 2

\* The script is at line 119: the first chooser was rendered and has a
\* full_table_name.
ScriptAtSecond ==
    /\ Len(widgets) = 1
    /\ widgets[1].rendered
    /\ ~widgets[1].stopped
    /\ widgets[1].full_table_name # None

\* Between two passes the user picks value in the selectbox that chooser i
\* rendered with key=self._full_key(key_name); the selectbox of the table
\* has on_change=self.handle_complete_selection (lines 66-67, 91-96).
Select(i, key_name, value) ==
    /\ phase = "idle"
    /\ touched = {}
    /\ i \in 1..Len(widgets)
    /\ key_name \in widgets[i].shown \ {"change_selection"}
    /\ value \in Options(key_name)
    /\ value # session_state[FullKey(widgets[i], key_name)]
    /\ LET k == FullKey(widgets[i], key_name)
           h == FullKey(widgets[i], "show_selection")
           handled == IF key_name = "table" THEN {h} ELSE {}
           s == SetItem(session_state, k, value)
       IN  /\ session_state' = IF key_name = "table" THEN SetItem(s, h, FALSE) ELSE s
           /\ touched' = touched \cup {k} \cup handled
           /\ lastSet' = IF handled \subseteq seeded /\ handled # {}
                         THEN SetItem(lastSet, h, FALSE) ELSE lastSet
           /\ held' = (held \ {k}) \cup (handled \cap seeded \cap InSet(session_state))
           /\ oldSets' = oldSets \ ({k} \cup handled)
           /\ declined' = declined \ ({k} \cup handled)
    /\ UNCHANGED <<used_key_prefixes, widgets, stack, phase, seeded, prevLog, replay>>

\* Between two passes the user clicks the button that chooser i rendered
\* with on_click=self.handle_change_selection (lines 63-64, 106-108).
ClickChange(i) ==
    /\ phase = "idle"
    /\ touched = {}
    /\ i \in 1..Len(widgets)
    /\ "change_selection" \in widgets[i].shown
    /\ SetState(i, "show_selection", TRUE)

\* The demo: passes of the script body, with the user's interactions.
NextChooser ==
    \/ Prepare(FALSE)
    \/ widgets = <<>> /\ NewTableChooser(None, None, None)
    \/ ScriptAtSecond /\ NewTableChooser("SCRATCH", "PUBLIC", "CUSTOMERS")
    \/ \E i \in 1..Len(widgets) : RenderChooser(i)
    \/ ScriptAtEnd /\ EndPass
    \/ \E i \in 1..Len(widgets), key_name \in {"database", "schema", "table"},
          value \in Databases \cup Schemas \cup Tables \cup {None} :
          Select(i, key_name, value)
    \/ \E i \in 1..Len(widgets) : ClickChange(i)

SpecChooser == Init /\ [][NextChooser]_vars

SweepStep ==
    /\ phase = "idle"
    /\ phase' = "run"
    /\ PERSIST_STATE_KEY \in DOMAIN session_state

\* the entries whose key is in the persistence set, and its own entry
Persisted(s) == {k \in DOMAIN s : k \in s[PERSIST_STATE_KEY]} \cup {PERSIST_STATE_KEY}

\* C10 as stated: with the persistence set present, WidgetBase.prepare
\* leaves exactly the persisted entries and the entry of the persistence
\* set, each with its value, and removes every other key.
CexC10 ==
    [][SweepStep =>
          /\ DOMAIN session_state' = Persisted(session_state)
          /\ \A k \in Persisted(session_state) : session_state'[k] = session_state[k]
      ]_vars

\* C10 as amended: with the persistence set present, WidgetBase.prepare
\* keeps every persisted entry and the entry of the persistence set, each
\* with its value, and removes no key.
ThmC10 ==
    [][SweepStep =>
          /\ DOMAIN session_state' = DOMAIN session_state
          /\ \A k \in Persisted(session_state) : session_state'[k] = session_state[k]
      ]_vars

\* the pass began with a rewrite, and an entry outside the persistence set
\* is still there
WitC10 ==
    /\ phase = "run"
    /\ widgets = <<>>
    /\ PERSIST_STATE_KEY \in DOMAIN session_state
    /\ \E k \in DOMAIN session_state : k \in session_state[PERSIST_STATE_KEY]
    /\ \E k \in DOMAIN session_state :
          k # PERSIST_STATE_KEY /\ k \notin session_state[PERSIST_STATE_KEY]

\* C11: _apply_session_state_defaults never overwrites: in every state of
\* a pass, for every widget, field and default, when the full key of the
\* field is present in session_state (with any value, None included) the
\* call leaves it present with the same value.
ThmC11 ==
    \A i \in 1..Len(widgets), f \in Fields, v \in Values :
        LET full_key == FullKey(widgets[i], f)
            after == Defaulted(session_state, full_key, v)
        IN  full_key \in DOMAIN session_state =>
                /\ full_key \in DOMAIN after
                /\ after[full_key] = session_state[full_key]

\* a key that holds None was offered another default in this pass and
\* still holds None
WitC11 ==
    /\ phase = "run"
    /\ \E k \in declined :
          /\ k \in DOMAIN session_state
          /\ session_state[k] = None

\* C12: _apply_session_state_defaults is idempotent: in every state of a
\* pass, for every widget, field and default, a second call with the same
\* mapping leaves the whole session_state, the entry of the persistence
\* set included, as the first call left it.
ThmC12 ==
    \A i \in 1..Len(widgets), f \in Fields, v \in Values :
        LET full_key == FullKey(widgets[i], f)
            first == Defaulted(session_state, full_key, v)
        IN  Defaulted(first, full_key, v) = first

\* two keys were given the default "a" and registered and neither was
\* written since; the persistence set holds both
WitC12 ==
    /\ phase = "run"
    /\ Cardinality(InSet(session_state)) = 2
    /\ \A k \in InSet(session_state) :
          /\ k \in seeded
          /\ k \notin DOMAIN lastSet
          /\ k \in DOMAIN session_state
          /\ session_state[k] = "a"

\* the step is a _set_session_state on the full key k
SetsKey(k) ==
    \E i \in 1..Len(widgets), f \in Fields, v \in Values :
        FullKey(widgets[i], f) = k /\ SetState(i, f, v)

\* _set_session_state(f, v) leaves a state in which _get_session_state(f)
\* returns v, and _get_session_state returns None for an absent full key
ReadsBack ==
    \A i \in 1..Len(widgets), f \in Fields :
        /\ \A v \in Values :
              GetState(SetItem(session_state, FullKey(widgets[i], f), v),
                       widgets[i], f) = v
        /\ FullKey(widgets[i], f) \notin DOMAIN session_state
              => GetState(session_state, widgets[i], f) = None

\* a step of a pass that changes what _get_session_state returns for a
\* present full key is a _set_session_state on that key
OnlySetChanges ==
    (phase = "run" /\ phase' = "run" /\ session_state' # session_state) =>
        \A i \in 1..Len(widgets), f \in Fields :
            (/\ FullKey(widgets[i], f) \in DOMAIN session_state
             /\ GetState(session_state', widgets[i], f) #
                   GetState(session_state, widgets[i], f))
            => SetsKey(FullKey(widgets[i], f))

\* C13: within one pass, _get_session_state on a widget returns the value
\* that _set_session_state wrote for the field, for every field and value,
\* until the next _set_session_state on the same full key; and
\* _get_session_state on a field whose full key is absent returns None.
ThmC13 == []ReadsBack /\ [][OnlySetChanges]_vars

\* in this pass "a" was written for a field of one widget and is read
\* back, and the field of another widget has no entry and reads None
WitC13 ==
    /\ phase = "run"
    /\ \E i, j \in 1..Len(widgets), f \in Fields :
          /\ FullKey(widgets[i], f) \in held \ oldSets
          /\ lastSet[FullKey(widgets[i], f)] = "a"
          /\ GetState(session_state, widgets[i], f) = "a"
          /\ FullKey(widgets[j], f) \notin DOMAIN session_state
          /\ GetState(session_state, widgets[j], f) = None

\* C17 as stated: in every state of a pass, after
\* _apply_session_state_defaults for a field of a widget the full key is
\* present in session_state and is in the persistence set, whatever wrote
\* the key before.
CexC17 ==
    \A i \in 1..Len(widgets), f \in Fields, v \in Values :
        LET full_key == FullKey(widgets[i], f)
            after == Defaulted(session_state, full_key, v)
        IN  phase = "run" =>
                /\ full_key \in DOMAIN after
                /\ full_key \in InSet(after)

\* C17 as amended: after _apply_session_state_defaults the full key is
\* present; it is in the persistence set exactly when it was absent before
\* the call or was in the persistence set already, and the call adds no
\* key that was present.
ThmC17 ==
    \A i \in 1..Len(widgets), f \in Fields, v \in Values :
        LET full_key == FullKey(widgets[i], f)
            after == Defaulted(session_state, full_key, v)
        IN  phase = "run" =>
                /\ full_key \in DOMAIN after
                /\ full_key \in InSet(after) <=>
                      (full_key \notin DOMAIN session_state
                          \/ full_key \in InSet(session_state))
                /\ full_key \in DOMAIN session_state
                      => InSet(after) = InSet(session_state)

\* in one pass a key is in the persistence set because it was absent when
\* it was given a default, and another key, never given a default, is
\* present and outside the persistence set, and the call leaves it so
WitC17 ==
    /\ phase = "run"
    /\ \E i, j \in 1..Len(widgets), f \in Fields :
          /\ FullKey(widgets[i], f) \in seeded \cap InSet(session_state)
          /\ FullKey(widgets[j], f) \in DOMAIN session_state
          /\ FullKey(widgets[j], f) \notin seeded
          /\ Defaulted(session_state, FullKey(widgets[j], f), "a") = session_state
          /\ FullKey(widgets[j], f) \notin InSet(session_state)

\* C18: WidgetBase.prepare changes no stored data: session_state is after
\* it what it was before, key for key and value for value, the persistence
\* set included, whether or not the persistence set exists; and
\* used_key_prefixes is empty afterwards.
ThmC18 ==
    [][(phase = "idle" /\ phase' = "run") =>
          /\ session_state' = session_state
          /\ used_key_prefixes' = {}
      ]_vars

\* a pass has begun: the registry is empty, a persisted entry was rewritten
\* and holds "a", and an entry written outside the persistence set is
\* still there
WitC18 ==
    /\ phase = "run"
    /\ widgets = <<>>
    /\ used_key_prefixes = {}
    /\ \E k \in InSet(session_state) \cap touched :
          k \in DOMAIN session_state /\ session_state[k] = "a"
    /\ \E k \in DOMAIN session_state \ InSet(session_state) :
          k # PERSIST_STATE_KEY /\ session_state[k] = "a"

(***************************************************************************)
(* Claims about prefix derivation (SpecKeys)                               *)
(***************************************************************************)
Ids == 1..Len(widgets)

Ordinary(i) == widgets[i].cls \in OrdinaryTypes

Shared(i) == widgets[i].cls \in SharedTypes

\* C3 as stated: two widgets of the same ordinary type constructed in one
\* pass under the same enclosing widget (of any kind, or none) have
\* different key prefixes.
CexC3 ==
    \A i, j \in Ids :
        (/\ i < j
         /\ Ordinary(i)
         /\ widgets[i].cls = widgets[j].cls
         /\ widgets[i].parent = widgets[j].parent)
        => widgets[i].key_prefix # widgets[j].key_prefix

\* C4 as stated: two widgets of one pass that are not both instances of the
\* same BlendState subclass have different full keys for every field name.
CexC4 ==
    \A i, j \in Ids :
        (i < j /\ ~(Shared(i) /\ widgets[i].cls = widgets[j].cls))
        => \A f \in Fields : FullKey(widgets[i], f) # FullKey(widgets[j], f)

\* the first k constructions of this pass are those of the repeated pass
SameConstructions(k) ==
    \A j \in 1..k : Desc(widgets[j]) = Desc(prevLog[j])

\* C5: when a pass performs the same constructions, in the same order, as
\* an earlier pass, the k-th widget gets the key prefix it got in that
\* pass, whatever was constructed before.
ThmC5 ==
    \A k \in Ids :
        (k <= Len(prevLog) /\ SameConstructions(k))
        => widgets[k].key_prefix = prevLog[k].key_prefix

\* a pass has repeated all the constructions of the pass before it, among
\* them a nested widget and a widget with a sibling index above 0
WitC5 ==
    /\ replay
    /\ Len(widgets) = Len(prevLog)
    /\ SameConstructions(Len(widgets))
    /\ \E i, j \in Ids : widgets[i].parent # 0 /\ widgets[j].idx > 0

\* the widgets constructed before i with its type, label and enclosing widget
EarlierSiblings(i) ==
    {j \in Ids : /\ j < i
                 /\ widgets[j].cls = widgets[i].cls
                 /\ widgets[j].named = widgets[i].named
                 /\ widgets[j].parent = widgets[i].parent}

\* C6 as stated: among the widgets of one ordinary type constructed under
\* one enclosing widget, the sibling indices are 0, 1, ... in construction
\* order, whatever else was constructed in the pass.
CexC6 ==
    \A i \in Ids :
        Ordinary(i) => widgets[i].idx = Cardinality(EarlierSiblings(i))

\* C7 as stated: two instances of one BlendState subclass with the same
\* named_instance constructed in one pass have the same key prefix,
\* wherever each is constructed.
CexC7 ==
    \A i, j \in Ids :
        (/\ i < j
         /\ Shared(i)
         /\ widgets[i].cls = widgets[j].cls
         /\ widgets[i].named = widgets[j].named)
        => widgets[i].key_prefix = widgets[j].key_prefix

\* C8 as stated: the key prefix of an instance of a BlendState subclass is
\* its type name and the optional [named_instance] tag and nothing else,
\* and its construction registers no prefix, whatever encloses it.
CexC8 ==
    \A i \in Ids :
        Shared(i) =>
            /\ widgets[i].key_prefix =
                  widgets[i].cls \o NamedPart(widgets[i].named, FALSE)
            /\ widgets[i].key_prefix \notin used_key_prefixes

\* the widget's own segment: type name, tag and sibling index
OwnSegment(w) == Candidate(w.cls, NamedPart(w.named, FALSE), w.idx, "")

\* C9 as stated: the key prefix of an ordinary widget constructed inside an
\* ordinary widget P consists of P's own key prefix and the widget's own
\* segment, for every P.
CexC9 ==
    \A i \in Ids :
        (/\ Ordinary(i)
         /\ widgets[i].parent # 0
         /\ Ordinary(widgets[i].parent))
        => widgets[i].key_prefix =
              widgets[widgets[i].parent].key_prefix \o OwnSegment(widgets[i])

\* the pass constructed A at the top level first, without a label
RootA ==
    /\ Len(widgets) >= 1
    /\ widgets[1].cls = "A"
    /\ widgets[1].named = NoLabel

\* then B twice in a row inside A's constructor, without a label
TwoBInA ==
    /\ RootA
    /\ Len(widgets) >= 3
    /\ \A k \in 2..3 :
          /\ widgets[k].cls = "B"
          /\ widgets[k].named = NoLabel
          /\ widgets[k].parent = 1

\* C14: after WidgetBase.prepare, a root widget A gets the key prefix
\* "A[0]."; B constructed twice in a row inside A's constructor gets
\* sibling index 0 and then 1, each combined with A's segment A[0], and
\* the three prefixes differ.
ThmC14 ==
    /\ RootA => widgets[1].key_prefix = "A[0]."
    /\ TwoBInA =>
          /\ widgets[2].idx = 0
          /\ widgets[3].idx = 1
          /\ widgets[2].key_prefix = "A[0]." \o "B[0]."
          /\ widgets[3].key_prefix = "A[0]." \o "B[1]."
          /\ Cardinality({widgets[k].key_prefix : k \in 1..3}) = 3

\* the scenario has been performed, in a pass that follows another pass
WitC14 ==
    /\ TwoBInA
    /\ replay
    /\ widgets[3].key_prefix = "A[0].B[1]."

\* the number of places where pat occurs in str
Occurrences(str, pat) ==
    Cardinality({n \in 1..(Len(str) - Len(pat) + 1) :
                    SubSeq(str, n, n + Len(pat) - 1) = pat})

EndsWith(str, suf) ==
    /\ Len(suf) <= Len(str)
    /\ SubSeq(str, Len(str) - Len(suf) + 1, Len(str)) = suf

\* the [label] tags a key prefix can carry
Tags == {"[" \o l \o "]" : l \in Labels \ {NoLabel}}

\* the new widget's own type-name segment with its tag
TaggedOwnSegment(w) ==
    IF w.cls \in SharedTypes THEN w.cls \o NamedPart(w.named, FALSE) ELSE OwnSegment(w)

\* C15 as stated: the key prefix of a widget constructed with a
\* named_instance carries the [label] tag exactly once, on the widget's own
\* type-name segment, and the key prefix of a widget constructed without
\* one carries no tag.
CexC15 ==
    \A i \in Ids :
        IF widgets[i].named = NoLabel
        THEN \A tag \in Tags : Occurrences(widgets[i].key_prefix, tag) = 0
        ELSE /\ Occurrences(widgets[i].key_prefix,
                            NamedPart(widgets[i].named, FALSE)) = 1
             /\ EndsWith(widgets[i].key_prefix, TaggedOwnSegment(widgets[i]))

\* the widgets constructed before i in the pass with its type and label
EarlierAlike(i) ==
    {j \in Ids : /\ j < i
                 /\ widgets[j].cls = widgets[i].cls
                 /\ widgets[j].named = widgets[i].named}

\* i and j are ordinary widgets of one type, both labelled, constructed in
\* this order under the same enclosing widget
LabelledSiblings(i, j) ==
    /\ i < j
    /\ Ordinary(i)
    /\ widgets[i].cls = widgets[j].cls
    /\ widgets[i].parent = widgets[j].parent
    /\ widgets[i].named # NoLabel
    /\ widgets[j].named # NoLabel

\* C19 as stated: the tag and the sibling index compose, the index being
\* counted per type and label: of two ordinary widgets of one type under
\* the same enclosing widget, each the first of its type and label in the
\* pass, both get sibling index 0 and their key prefixes differ when the
\* labels differ; with the same label, the first and the second of that
\* type and label get the indices 0 and 1.
CexC19 ==
    \A i, j \in Ids :
        LabelledSiblings(i, j) =>
            /\ (/\ widgets[i].named # widgets[j].named
                /\ EarlierAlike(i) = {}
                /\ EarlierAlike(j) = {})
               => /\ widgets[i].idx = 0
                  /\ widgets[j].idx = 0
                  /\ widgets[i].key_prefix # widgets[j].key_prefix
            /\ (/\ widgets[i].named = widgets[j].named
                /\ EarlierAlike(j) = {i})
               => /\ widgets[i].idx = 0
                  /\ widgets[j].idx = 1

\* C16 as stated: when the constructor of TableChooser has returned,
\* full_table_name is None whenever the selected database, schema or table
\* read from the session state is None.
CexC16 ==
    \A i \in 1..Len(widgets) :
        (\/ widgets[i].selected_database = None
         \/ widgets[i].selected_schema = None
         \/ widgets[i].selected_table = None)
        => widgets[i].full_table_name = None

====
